---- MODULE Spec2Model ----
(***************************************************************************)
(* Model of the command execution subsystem of Broken's core module       *)
(* (src/code/broken/core/__init__.py): the shell() dispatcher and the      *)
(* StdinWrapper that shell(Popen=True, threaded_stdin=True) installs as    *)
(* the stdin of the spawned process.                                       *)
(*                                                                         *)
(* Two specifications share the module:                                    *)
(*   Spec       the StdinWrapper (queue, worker thread, producers, close)  *)
(*   SpecShell  one thread calling shell(), possibly inside environment()  *)
(***************************************************************************)
EXTENDS Integers, Sequences, FiniteSets, TLC

VARIABLES
    \* ---- StdinWrapper ------------------------------------------------
    queue,        \* Queue's pending items (self._queue), oldest first
    unfinished,   \* Queue.unfinished_tasks: put() adds one, task_done() removes one
    loop,         \* self._loop
    stdinClosed,  \* the raw stdin object (self._stdin) has been closed
    stdinCloses,  \* number of self._stdin.close() calls so far
    pipe,         \* the chunks self._stdin.write() accepted, in order
    procExited,   \* self._process.poll() is not None
    wpc,          \* position of the worker thread
    item,         \* the chunk the worker holds between get() and write()
    ppc,          \* position of each producer: "idle" or "blocked" inside put()
    pending,      \* the chunk a blocked producer is trying to put
    nwrites,      \* number of write() calls each producer has made
    cpc,          \* position of the thread calling close()
    closeCalls,   \* number of close() calls invoked
    closeReturns, \* number of close() calls that returned
    sent,         \* chunks in the order their put() completed
    taken,        \* number of get() calls that returned
    enqAtClose,   \* Len(sent) when close() was first invoked
    \* ---- shell() -------------------------------------------------------
    environ,      \* os.environ of the parent process
    saved,        \* `original` of the active environment() context, or NoEnv
    spc,          \* position of the thread inside shell()
    call,         \* the arguments of the shell() call in progress
    args,         \* the local `args` (after line 124), or the joined string
    joined,       \* args has been joined into one string (line 138)
    childEnv,     \* kwargs["env"] once line 148 ran, else NoEnv
    envAtCall,    \* os.environ as it was when shell() was called
    answer,       \* what click.confirm returned, or "none" if not asked
    prompts,      \* number of confirmation prompts shown during the call
    spawned,      \* process-creation primitives invoked during the call
    outcome       \* how the call ended

wvars == <<queue, unfinished, loop, stdinClosed, stdinCloses, pipe, procExited,
           wpc, item, ppc, pending, nwrites, cpc, closeCalls, closeReturns,
           sent, taken, enqAtClose>>

svars == <<environ, saved, spc, call, args, joined, childEnv, envAtCall,
           answer, prompts, spawned, outcome>>

vars == <<wvars, svars>>

----------------------------------------------------------------------------
(* Bounds *)

MaxWrites == 11      \* write() calls of the main producer
MaxSideWrites == 1   \* write() calls of every other producer
MaxCloses == 2       \* close() calls

(* Program constants *)

QueueMaxSize == 10   \* Queue(maxsize=10)

Producers == {1, 2}

Quota(p) == IF p = 1 THEN MaxWrites ELSE MaxSideWrites

NoItem == <<0, 0>>

\* A chunk is identified by its producer and the ordinal of the write() call;
\* the wrapper never inspects the data it carries.
Chunk(p, n) == <<p, n>>

----------------------------------------------------------------------------
(* queue.Queue, as used by StdinWrapper *)

\* a queue that lets one chunk too many in
QueueFullOffByOne(q) == Len(q) > QueueMaxSize

\* put() waits while qsize() >= maxsize
QueueFull(q) == Len(q) >= QueueMaxSize

\* a queue that hands out the newest item
QueueGetNewest(q) == q[Len(q)]

\* get() returns the oldest item
QueueGet(q) == Head(q)

\* a get() that leaves the item it returns in the queue
QueueRestKeep(q) == q

\* get() removes the item it returns
QueueRest(q) == Tail(q)

\* a close() that does not wait for the queue to drain
JoinNoWait == TRUE

\* join() returns once unfinished_tasks is zero
JoinDone == unfinished = 0

----------------------------------------------------------------------------
(* StdinWrapper *)

WriterInit ==
    /\ queue = <<>>
    /\ unfinished = 0
    /\ loop = TRUE
    /\ stdinClosed = FALSE
    /\ stdinCloses = 0
    /\ pipe = <<>>
    /\ procExited = FALSE
    /\ wpc = "loop"
    /\ item = NoItem
    /\ ppc = [p \in Producers |-> "idle"]
    /\ pending = [p \in Producers |-> NoItem]
    /\ nwrites = [p \in Producers |-> 0]
    /\ cpc = "idle"
    /\ closeCalls = 0
    /\ closeReturns = 0
    /\ sent = <<>>
    /\ taken = 0
    /\ enqAtClose = 0

\* The part of put() that runs once there is room.
Put(c) ==
    /\ queue' = Append(queue, c)
    /\ unfinished' = unfinished + 1
    /\ sent' = Append(sent, c)

\* write(data): self._queue.put(data); blocks while the queue is full.
Write(p) ==
    /\ ppc[p] = "idle"
    /\ nwrites[p] < Quota(p)
    /\ LET c == Chunk(p, nwrites[p] + 1) IN
        /\ nwrites' = [nwrites EXCEPT ![p] = @ + 1]
        /\ IF QueueFull(queue)
              THEN /\ ppc' = [ppc EXCEPT ![p] = "blocked"]
                   /\ pending' = [pending EXCEPT ![p] = c]
                   /\ UNCHANGED <<queue, unfinished, sent>>
              ELSE /\ Put(c)
                   /\ UNCHANGED <<ppc, pending>>
    /\ UNCHANGED <<loop, stdinClosed, stdinCloses, pipe, procExited, wpc, item,
                   cpc, closeCalls, closeReturns, taken, enqAtClose>>
    /\ UNCHANGED svars

\* A producer blocked in put() is woken once the queue has room.
WriteResume(p) ==
    /\ ppc[p] = "blocked"
    /\ ~QueueFull(queue)
    /\ Put(pending[p])
    /\ ppc' = [ppc EXCEPT ![p] = "idle"]
    /\ pending' = [pending EXCEPT ![p] = NoItem]
    /\ UNCHANGED <<loop, stdinClosed, stdinCloses, pipe, procExited, wpc, item,
                   nwrites, cpc, closeCalls, closeReturns, taken, enqAtClose>>
    /\ UNCHANGED svars

\* worker: `while self._loop:`
WorkerLoop ==
    /\ wpc = "loop"
    /\ wpc' = IF loop THEN "get" ELSE "exit"
    /\ UNCHANGED <<queue, unfinished, loop, stdinClosed, stdinCloses, pipe,
                   procExited, item, ppc, pending, nwrites, cpc, closeCalls,
                   closeReturns, sent, taken, enqAtClose>>
    /\ UNCHANGED svars

\* worker: self._queue.get(), blocking while the queue is empty
WorkerGet ==
    /\ wpc = "get"
    /\ queue # <<>>
    /\ item' = QueueGet(queue)
    /\ queue' = QueueRest(queue)
    /\ taken' = taken + 1
    /\ wpc' = "write"
    /\ UNCHANGED <<unfinished, loop, stdinClosed, stdinCloses, pipe, procExited,
                   ppc, pending, nwrites, cpc, closeCalls, closeReturns, sent,
                   enqAtClose>>
    /\ UNCHANGED svars

\* worker: self._stdin.write(item). Writing to a closed file raises ValueError;
\* writing to the pipe of a process that has exited may raise BrokenPipeError
\* (or be accepted by the stream's buffer). An exception ends the thread.
WorkerWrite ==
    /\ wpc = "write"
    /\ \/ /\ ~stdinClosed
          /\ pipe' = Append(pipe, item)
          /\ wpc' = "ack"
          /\ UNCHANGED item
       \/ /\ stdinClosed \/ procExited
          /\ wpc' = "crashed"
          /\ item' = NoItem
          /\ UNCHANGED pipe
    /\ UNCHANGED <<queue, unfinished, loop, stdinClosed, stdinCloses, procExited,
                   ppc, pending, nwrites, cpc, closeCalls, closeReturns, sent,
                   taken, enqAtClose>>
    /\ UNCHANGED svars

\* worker: self._queue.task_done()
WorkerTaskDone ==
    /\ wpc = "ack"
    /\ unfinished' = unfinished - 1
    /\ item' = NoItem
    /\ wpc' = "loop"
    /\ UNCHANGED <<queue, loop, stdinClosed, stdinCloses, pipe, procExited, ppc,
                   pending, nwrites, cpc, closeCalls, closeReturns, sent, taken,
                   enqAtClose>>
    /\ UNCHANGED svars

\* close() is invoked
Close ==
    /\ cpc = "idle"
    /\ closeCalls < MaxCloses
    /\ closeCalls' = closeCalls + 1
    /\ enqAtClose' = IF closeCalls = 0 THEN Len(sent) ELSE enqAtClose
    /\ cpc' = "join"
    /\ UNCHANGED <<queue, unfinished, loop, stdinClosed, stdinCloses, pipe,
                   procExited, wpc, item, ppc, pending, nwrites, closeReturns,
                   sent, taken>>
    /\ UNCHANGED svars

\* close: self._queue.join()
CloseJoin ==
    /\ cpc = "join"
    /\ JoinDone
    /\ cpc' = "close"
    /\ UNCHANGED <<queue, unfinished, loop, stdinClosed, stdinCloses, pipe,
                   procExited, wpc, item, ppc, pending, nwrites, closeCalls,
                   closeReturns, sent, taken, enqAtClose>>
    /\ UNCHANGED svars

\* close: self._stdin.close()
CloseStdin ==
    /\ cpc = "close"
    /\ stdinClosed' = TRUE
    /\ stdinCloses' = stdinCloses + 1
    /\ cpc' = "clear"
    /\ UNCHANGED <<queue, unfinished, loop, pipe, procExited, wpc, item, ppc,
                   pending, nwrites, closeCalls, closeReturns, sent, taken,
                   enqAtClose>>
    /\ UNCHANGED svars

\* close: self._loop = False
CloseClearLoop ==
    /\ cpc = "clear"
    /\ loop' = FALSE
    /\ cpc' = "poll"
    /\ UNCHANGED <<queue, unfinished, stdinClosed, stdinCloses, pipe, procExited,
                   wpc, item, ppc, pending, nwrites, closeCalls, closeReturns,
                   sent, taken, enqAtClose>>
    /\ UNCHANGED svars

\* close: `while self._process.poll() is None: time.sleep(0.01)`, then return
ClosePoll ==
    /\ cpc = "poll"
    /\ procExited
    /\ cpc' = "idle"
    /\ closeReturns' = closeReturns + 1
    /\ UNCHANGED <<queue, unfinished, loop, stdinClosed, stdinCloses, pipe,
                   procExited, wpc, item, ppc, pending, nwrites, closeCalls,
                   sent, taken, enqAtClose>>
    /\ UNCHANGED svars

\* The owned process exits (on end of input, or on its own).
ProcExit ==
    /\ ~procExited
    /\ procExited' = TRUE
    /\ UNCHANGED <<queue, unfinished, loop, stdinClosed, stdinCloses, pipe, wpc,
                   item, ppc, pending, nwrites, cpc, closeCalls, closeReturns,
                   sent, taken, enqAtClose>>
    /\ UNCHANGED svars

WriterNext ==
    \/ \E p \in Producers : Write(p)
    \/ \E p \in Producers : WriteResume(p)
    \/ WorkerLoop
    \/ WorkerGet
    \/ WorkerWrite
    \/ WorkerTaskDone
    \/ Close
    \/ CloseJoin
    \/ CloseStdin
    \/ CloseClearLoop
    \/ ClosePoll
    \/ ProcExit

----------------------------------------------------------------------------
(* Values handed to shell(): argument fragments and mappings *)

\* One element of *args: None, a string, a number or a nested list/tuple.
None == [kind |-> "none", str |-> "", num |-> 0, items |-> <<>>]
S(s) == [kind |-> "str", str |-> s, num |-> 0, items |-> <<>>]
N(n) == [kind |-> "int", str |-> "", num |-> n, items |-> <<>>]
L(xs) == [kind |-> "list", str |-> "", num |-> 0, items |-> xs]

\* flatten's default block=(None, ""): `item not in block` is False for these
Blocked(e) == e.kind = "none" \/ (e.kind = "str" /\ e.str = "")

\* flatten's default unpack=(list, deque, tuple, map, Generator)
Unpacked(e) == e.kind = "list"

RECURSIVE flatten(_)
flatten(data) ==
    IF data = <<>> THEN <<>>
    ELSE LET e == Head(data) IN
         IF Blocked(e) THEN flatten(Tail(data))
         ELSE IF Unpacked(e) THEN flatten(e.items) \o flatten(Tail(data))
         ELSE <<e>> \o flatten(Tail(data))

\* str() of a flattened element (numbers here are single digits)
DigitStr == <<"0", "1", "2", "3", "4", "5", "6", "7", "8", "9">>
Str(e) == IF e.kind = "int" THEN DigitStr[e.num + 1] ELSE e.str

\* tuple(map(str, flatten(args)))
Normalize(frags) == LET f == flatten(frags) IN [i \in 1..Len(f) |-> Str(f[i])]

\* ' '.join(args)
RECURSIVE Join(_)
Join(a) ==
    IF a = <<>> THEN ""
    ELSE IF Len(a) = 1 THEN a[1]
    ELSE a[1] \o " " \o Join(Tail(a))

\* A mapping of environment variables is a function from names to values.
EmptyMap == [k \in {} |-> ""]
NoEnv == [none |-> TRUE, map |-> EmptyMap]
Env(m) == [none |-> FALSE, map |-> m]

\* `a | b` on mappings: the keys of both, b winning on collision
Merge(a, b) ==
    [k \in (DOMAIN a) \cup (DOMAIN b) |-> IF k \in DOMAIN b THEN b[k] ELSE a[k]]

\* `env or {}`
OrEmpty(e) == IF e.none \/ e.map = EmptyMap THEN EmptyMap ELSE e.map

----------------------------------------------------------------------------
(* Inputs of the shell() calls explored *)

ArgInputs ==
    { <<>>,
      <<None, S("")>>,
      <<L(<<None, L(<<S("")>>)>>)>>,
      <<S("echo"), S("hi")>>,
      <<L(<<S("echo"), None>>), S(""), L(<<L(<<S("hi")>>), N(3)>>)>>,
      <<S("nonexistent_binary_xyz")>>,
      <<S("cat"), L(<<S("f")>>)>>,
      <<None, S("false")>> }

EnvInputs ==
    { NoEnv, Env(EmptyMap), Env("A" :> "1"), Env(("A" :> "1") @@ ("B" :> "2")) }

ContextInputs == { "B" :> "0", ("A" :> "2") @@ ("B" :> "0") }

Calls ==
    [ frags : ArgInputs, output : BOOLEAN, Popen : BOOLEAN, env : EnvInputs,
      confirm : BOOLEAN, threaded_stdin : BOOLEAN, skip : BOOLEAN,
      shell : BOOLEAN ]

\* Executables shutil.which() and the OS find on PATH
OnPath == {"echo", "false", "cat"}

\* Exit codes a child may end with
ExitCodes == {0, 1, 2}

\* What a child may have written to its stdout, as bytes: nothing, "hi\n",
\* "e" with an acute accent (two bytes), a byte no UTF-8 text holds, and a
\* two-byte character cut short
StdoutInputs == { <<>>, <<104, 105, 10>>, <<195, 169>>, <<255>>, <<104, 195>> }

NoCall ==
    [ frags |-> <<>>, output |-> FALSE, Popen |-> FALSE, env |-> NoEnv,
      confirm |-> FALSE, threaded_stdin |-> FALSE, skip |-> FALSE,
      shell |-> FALSE ]

\* `data` is the text a str result holds (as code points) or the bytes a
\* CalledProcessError carries in .output
Pending ==
    [kind |-> "pending", err |-> "", code |-> 0, wrapped |-> FALSE, data |-> <<>>]
Returned(kind, code, wrapped) ==
    [kind |-> kind, err |-> "", code |-> code, wrapped |-> wrapped, data |-> <<>>]
Raised(err, code) ==
    [kind |-> "raise", err |-> err, code |-> code, wrapped |-> FALSE, data |-> <<>>]
ReturnedText(text) ==
    [kind |-> "text", err |-> "", code |-> 0, wrapped |-> FALSE, data |-> text]
RaisedProcessError(code, out) ==
    [kind |-> "raise", err |-> "CalledProcessError", code |-> code,
     wrapped |-> FALSE, data |-> out]

\* bytes.decode("utf-8"), errors="strict": the code points of the text, or
\* ok = FALSE where it raises UnicodeDecodeError
IsCont(b) == b >= 128 /\ b <= 191

\* number of bytes of the character that starts b, 0 if none is well formed
Utf8Width(b) ==
    IF b[1] < 128 THEN 1
    ELSE IF b[1] >= 194 /\ b[1] <= 223
        THEN IF Len(b) >= 2 /\ IsCont(b[2]) THEN 2 ELSE 0
    ELSE IF b[1] >= 224 /\ b[1] <= 239
        THEN IF /\ Len(b) >= 3 /\ IsCont(b[2]) /\ IsCont(b[3])
                /\ (b[1] = 224 => b[2] >= 160)
                /\ (b[1] = 237 => b[2] <= 159)
             THEN 3 ELSE 0
    ELSE IF b[1] >= 240 /\ b[1] <= 244
        THEN IF /\ Len(b) >= 4 /\ IsCont(b[2]) /\ IsCont(b[3]) /\ IsCont(b[4])
                /\ (b[1] = 240 => b[2] >= 144)
                /\ (b[1] = 244 => b[2] <= 143)
             THEN 4 ELSE 0
    ELSE 0

Utf8CodePoint(b, w) ==
    IF w = 1 THEN b[1]
    ELSE IF w = 2 THEN (b[1] - 192) * 64 + (b[2] - 128)
    ELSE IF w = 3 THEN (b[1] - 224) * 4096 + (b[2] - 128) * 64 + (b[3] - 128)
    ELSE (b[1] - 240) * 262144 + (b[2] - 128) * 4096 + (b[3] - 128) * 64
         + (b[4] - 128)

RECURSIVE Utf8Decode(_)
Utf8Decode(b) ==
    IF b = <<>> THEN [ok |-> TRUE, text |-> <<>>]
    ELSE LET w == Utf8Width(b) IN
         IF w = 0 THEN [ok |-> FALSE, text |-> <<>>]
         ELSE LET rest == Utf8Decode(SubSeq(b, w + 1, Len(b))) IN
              [ok |-> rest.ok,
               text |-> IF rest.ok THEN <<Utf8CodePoint(b, w)>> \o rest.text
                                   ELSE <<>>]

----------------------------------------------------------------------------
(* shell() *)

ShellInit ==
    /\ environ = ("A" :> "0")
    /\ saved = NoEnv
    /\ spc = "idle"
    /\ call = NoCall
    /\ args = <<>>
    /\ joined = FALSE
    /\ childEnv = NoEnv
    /\ envAtCall = EmptyMap
    /\ answer = "none"
    /\ prompts = 0
    /\ spawned = <<>>
    /\ outcome = Pending

\* a mode check that a skipped call does not reach
BothModesUnlessSkip(c) == c.output /\ c.Popen /\ ~c.skip

\* `if (output and Popen)`
BothModes(c) == c.output /\ c.Popen

\* In `(not shell)` the name `shell` is the function being defined, not the
\* shell= keyword (that one lives in kwargs): a function object is truthy.
ShellNameTruthy == TRUE

\* `if (not shell) and (not shutil.which(args[0]))`: the error it raises, or "pass"
WhichCheck(a) ==
    IF ShellNameTruthy THEN "pass"
    ELSE IF a = <<>> THEN "IndexError"
    ELSE IF a[1] \in OnPath THEN "pass"
    ELSE "FileNotFoundError"

\* a skip that a requested confirmation overrides
SkipUnlessConfirm(c) == c.skip /\ ~c.confirm

\* `if skip: return`
SkipReturns(c) == c.skip

\* a confirmation gate that reads the answer the wrong way round
DeclinedInverted(c, ans) == c.confirm /\ ans

\* `if confirm and not click.confirm(...)`: return without running
Declined(c, ans) == c.confirm /\ ~ans

\* kwargs["env"] = os.environ | (env or {})
ChildEnv(osenv, e) == Merge(osenv, OrEmpty(e))

\* an overlay applied with os.environ.update(env)
EnvironUpdated(osenv, e) == Merge(osenv, OrEmpty(e))

\* os.environ after line 148: `|` builds a new dict and leaves os.environ alone
EnvironAfterShell(osenv, e) == osenv

\* with environment(**variables): os.environ.update(variables)
EnvironmentEnter ==
    /\ spc = "idle"
    /\ saved = NoEnv
    /\ \E v \in ContextInputs :
        /\ saved' = Env(environ)
        /\ environ' = Merge(environ, v)
    /\ UNCHANGED <<spc, call, args, joined, childEnv, envAtCall, answer, prompts,
                   spawned, outcome>>
    /\ UNCHANGED wvars

\* leaving the context: os.environ.clear(); os.environ.update(original)
EnvironmentExit ==
    /\ spc = "idle"
    /\ saved # NoEnv
    /\ environ' = saved.map
    /\ saved' = NoEnv
    /\ UNCHANGED <<spc, call, args, joined, childEnv, envAtCall, answer, prompts,
                   spawned, outcome>>
    /\ UNCHANGED wvars

\* shell(*args, ...) is called
ShellCall ==
    /\ spc = "idle"
    /\ \E c \in Calls : call' = c
    /\ envAtCall' = environ
    /\ args' = <<>>
    /\ joined' = FALSE
    /\ childEnv' = NoEnv
    /\ answer' = "none"
    /\ prompts' = 0
    /\ spawned' = <<>>
    /\ outcome' = Pending
    /\ spc' = "modes"
    /\ UNCHANGED <<environ, saved>>
    /\ UNCHANGED wvars

\* lines 121-122
ShellModes ==
    /\ spc = "modes"
    /\ IF BothModes(call)
          THEN outcome' = Raised("ValueError", 0) /\ spc' = "done"
          ELSE outcome' = outcome /\ spc' = "flatten"
    /\ UNCHANGED <<environ, saved, call, args, joined, childEnv, envAtCall,
                   answer, prompts, spawned>>
    /\ UNCHANGED wvars

\* line 124
ShellFlatten ==
    /\ spc = "flatten"
    /\ args' = Normalize(call.frags)
    /\ spc' = "which"
    /\ UNCHANGED <<environ, saved, call, joined, childEnv, envAtCall, answer,
                   prompts, spawned, outcome>>
    /\ UNCHANGED wvars

\* lines 126-128
ShellWhich ==
    /\ spc = "which"
    /\ IF WhichCheck(args) = "pass"
          THEN outcome' = outcome /\ spc' = "log"
          ELSE outcome' = Raised(WhichCheck(args), 0) /\ spc' = "done"
    /\ UNCHANGED <<environ, saved, call, args, joined, childEnv, envAtCall,
                   answer, prompts, spawned>>
    /\ UNCHANGED wvars

\* lines 130-135: log the command, return if skip
ShellSkip ==
    /\ spc = "log"
    /\ IF SkipReturns(call)
          THEN outcome' = Returned("none", 0, FALSE) /\ spc' = "done"
          ELSE outcome' = outcome /\ spc' = "shellstr"
    /\ UNCHANGED <<environ, saved, call, args, joined, childEnv, envAtCall,
                   answer, prompts, spawned>>
    /\ UNCHANGED wvars

\* lines 137-142: with shell=True the arguments become one string
ShellString ==
    /\ spc = "shellstr"
    /\ IF call.shell
          THEN args' = <<Join(args)>> /\ joined' = TRUE
          ELSE args' = args /\ joined' = joined
    /\ spc' = "confirm"
    /\ UNCHANGED <<environ, saved, call, childEnv, envAtCall, answer, prompts,
                   spawned, outcome>>
    /\ UNCHANGED wvars

\* lines 144-145: click.confirm is only called when confirm is set
ShellConfirm ==
    /\ spc = "confirm"
    /\ IF call.confirm
          THEN \E ans \in BOOLEAN :
                /\ answer' = IF ans THEN "yes" ELSE "no"
                /\ prompts' = prompts + 1
                /\ IF Declined(call, ans)
                      THEN outcome' = Returned("none", 0, FALSE) /\ spc' = "done"
                      ELSE outcome' = outcome /\ spc' = "env"
          ELSE /\ UNCHANGED <<answer, prompts, outcome>>
               /\ spc' = "env"
    /\ UNCHANGED <<environ, saved, call, args, joined, childEnv, envAtCall,
                   spawned>>
    /\ UNCHANGED wvars

\* lines 147-148
ShellEnv ==
    /\ spc = "env"
    /\ childEnv' = Env(ChildEnv(environ, call.env))
    /\ environ' = EnvironAfterShell(environ, call.env)
    /\ spc' = "dispatch"
    /\ UNCHANGED <<saved, call, args, joined, envAtCall, answer, prompts,
                   spawned, outcome>>
    /\ UNCHANGED wvars

\* The primitive lines 154-187 pick
Primitive(c) ==
    IF c.output THEN "check_output" ELSE IF c.Popen THEN "Popen" ELSE "run"

\* What creating the child raises, or "started". Without shell=True the first
\* argument is the executable; with it the interpreter is the executable.
Exec(a, isJoined) ==
    IF isJoined THEN "started"
    ELSE IF a = <<>> THEN "IndexError"
    ELSE IF a[1] \in OnPath THEN "started"
    ELSE "FileNotFoundError"

\* What the child does once started: the exit codes and stdout bytes it may end
\* with. `echo`, `false`, the empty command line and a command the interpreter
\* does not find do what they always do; any other program (here `cat f`, f
\* any file) may end with any exit code and any output.
ChildRuns(a, isJoined) ==
    LET cmd == IF isJoined THEN a[1] ELSE Join(a) IN
    CASE cmd = "" -> {<<0, <<>>>>}
      [] cmd = "echo hi" -> {<<0, <<104, 105, 10>>>>}
      [] cmd = "echo hi 3" -> {<<0, <<104, 105, 32, 51, 10>>>>}
      [] cmd = "false" -> {<<1, <<>>>>}
      [] cmd = "nonexistent_binary_xyz" -> {<<127, <<>>>>}
      [] OTHER -> ExitCodes \X StdoutInputs

\* a run() that raises on a non-zero exit, as with check=True
PrimitiveResultChecked(c, code, out) ==
    IF c.output
       THEN IF code # 0 THEN RaisedProcessError(code, out)
            ELSE IF Utf8Decode(out).ok THEN ReturnedText(Utf8Decode(out).text)
            ELSE Raised("UnicodeDecodeError", 0)
    ELSE IF c.Popen
       THEN Returned("process", 0, c.threaded_stdin)
    ELSE IF code # 0 THEN RaisedProcessError(code, <<>>)
    ELSE Returned("completed", code, FALSE)

\* What lines 154-187 give back for a child that started and, for the blocking
\* primitives, wrote `out` to its stdout and ended with exit code `code`:
\* check_output raises CalledProcessError(code, output) on a non-zero exit and
\* its bytes are decoded otherwise; Popen returns the handle at once; run
\* returns a CompletedProcess whatever the exit code.
PrimitiveResult(c, code, out) ==
    IF c.output
       THEN IF code # 0 THEN RaisedProcessError(code, out)
            ELSE IF Utf8Decode(out).ok THEN ReturnedText(Utf8Decode(out).text)
            ELSE Raised("UnicodeDecodeError", 0)
    ELSE IF c.Popen
       THEN Returned("process", 0, c.threaded_stdin)
    ELSE Returned("completed", code, FALSE)

\* lines 154-187
ShellDispatch ==
    /\ spc = "dispatch"
    /\ LET e == Exec(args, joined)
           rec(code, out) ==
                [prim |-> Primitive(call), args |-> args, shell |-> joined,
                 env |-> childEnv.map, started |-> (e = "started"),
                 code |-> code, stdout |-> out]
       IN
        IF e = "started"
           THEN \E r \in ChildRuns(args, joined) :
                    \* the child of Popen is still running when shell() returns
                    /\ spawned' = Append(spawned,
                            IF Primitive(call) = "Popen" THEN rec(0, <<>>)
                                                         ELSE rec(r[1], r[2]))
                    /\ outcome' = PrimitiveResult(call, r[1], r[2])
           ELSE /\ spawned' = Append(spawned, rec(0, <<>>))
                /\ outcome' = Raised(e, 0)
    /\ spc' = "done"
    /\ UNCHANGED <<environ, saved, call, args, joined, childEnv, envAtCall,
                   answer, prompts>>
    /\ UNCHANGED wvars

\* the caller receives the result (or the exception); the frame of the call
\* and its locals are gone
ShellReturn ==
    /\ spc = "done"
    /\ spc' = "idle"
    /\ call' = NoCall
    /\ args' = <<>>
    /\ joined' = FALSE
    /\ childEnv' = NoEnv
    /\ envAtCall' = EmptyMap
    /\ answer' = "none"
    /\ prompts' = 0
    /\ spawned' = <<>>
    /\ outcome' = Pending
    /\ UNCHANGED <<environ, saved>>
    /\ UNCHANGED wvars

ShellNext ==
    \/ EnvironmentEnter
    \/ EnvironmentExit
    \/ ShellCall
    \/ ShellModes
    \/ ShellFlatten
    \/ ShellWhich
    \/ ShellSkip
    \/ ShellString
    \/ ShellConfirm
    \/ ShellEnv
    \/ ShellDispatch
    \/ ShellReturn

----------------------------------------------------------------------------
(* Specifications *)

Init == WriterInit /\ ShellInit

Next == WriterNext

Spec == Init /\ [][Next]_vars

SpecShell == Init /\ [][ShellNext]_vars

----------------------------------------------------------------------------
(* Properties of the StdinWrapper, checked under Spec *)

IsPrefix(a, b) == Len(a) <= Len(b) /\ \A i \in 1..Len(a) : a[i] = b[i]

OnlyProducer(p) == \A q \in Producers \ {p} : nwrites[q] = 0

\* C1: while a single producer feeds the wrapper, the i-th write the raw stdin
\* accepts is the chunk of that producer's i-th write() call: the raw stdin
\* sees the chunks in call order, none reordered, merged, duplicated or left
\* out between two written ones.
FifoOrder ==
    \A p \in Producers :
        OnlyProducer(p) =>
            /\ Len(pipe) <= nwrites[p]
            /\ \A i \in 1..Len(pipe) : pipe[i] = Chunk(p, i)

\* three chunks of one producer have reached the raw stdin while more are queued
FifoOrderWitness ==
    /\ OnlyProducer(1)
    /\ Len(pipe) >= 3
    /\ Len(queue) >= 2

\* C2: once the raw stdin is closed, the K chunks that were enqueued when
\* close() was invoked have all been written to it, in order; and close() has
\* returned only if the process was seen exited.
GracefulClose ==
    /\ stdinClosed => IsPrefix(SubSeq(sent, 1, enqAtClose), pipe)
    /\ closeReturns > 0 => (procExited /\ stdinClosed)
    /\ cpc \in {"clear", "poll"} => stdinClosed

\* close() was invoked with three or more chunks enqueued and not all of them
\* written, and has returned
GracefulCloseWitness ==
    /\ closeReturns > 0
    /\ enqAtClose >= 3
    /\ Len(pipe) >= enqAtClose

\* C3 (as claimed): a write() after close() is rejected. Taken at its weakest,
\* for the writes called once close() has even returned: such a call does not
\* put its chunk into the queue.
LateWriteRejected ==
    [][\A p \in Producers : (closeReturns > 0 /\ Write(p)) => UNCHANGED sent]_vars

\* C4: the queue never holds more than QueueMaxSize chunks; while the worker
\* has taken nothing, a producer is blocked only after QueueMaxSize write()
\* calls have returned; and one more write() has returned only after the worker
\* took a chunk.
Backpressure ==
    /\ Len(queue) <= QueueMaxSize
    /\ Len(sent) <= taken + QueueMaxSize
    /\ \A p \in Producers :
        (ppc[p] = "blocked" /\ taken = 0) => Len(sent) = QueueMaxSize

\* the (N+1)th write() of a single producer is blocked, the worker idle
BackpressureWitness ==
    /\ OnlyProducer(1)
    /\ ppc[1] = "blocked"
    /\ nwrites[1] = QueueMaxSize + 1
    /\ taken = 0

----------------------------------------------------------------------------
(* Properties of shell(), checked under SpecShell *)

Finished == spc = "done"

\* the caller asked for both Capture (output=True) and Spawn (Popen=True)
CaptureAndSpawn == call.output /\ call.Popen

NoOp == Returned("none", 0, FALSE)

InvalidInvocation == Raised("ValueError", 0)

\* C5 (as claimed): without shell=True, a call whose first normalized argument
\* is not on PATH ends in FileNotFoundError with no process-creation primitive
\* invoked and no prompt shown (calls the mode check rejects first aside).
BinaryNotFoundFirst ==
    (/\ Finished
     /\ ~call.shell
     /\ ~CaptureAndSpawn
     /\ Normalize(call.frags) # <<>>
     /\ Normalize(call.frags)[1] \notin OnPath)
        => /\ outcome = Raised("FileNotFoundError", 0)
           /\ spawned = <<>>
           /\ prompts = 0

\* C6 (as claimed): a call whose arguments normalize to the empty sequence ends
\* in the invalid-invocation error with no process-creation primitive invoked.
EmptyArgsRejected ==
    (Finished /\ Normalize(call.frags) = <<>>)
        => /\ outcome = InvalidInvocation
           /\ spawned = <<>>

\* C7 (as claimed): with skip set the call invokes no primitive, shows no
\* prompt and returns None, whatever the other fields.
SkipAlwaysNoOp ==
    call.skip =>
        /\ spawned = <<>>
        /\ prompts = 0
        /\ Finished => outcome = NoOp

\* C7 (amended): with skip set the call invokes no primitive and shows no
\* prompt, whatever the other fields; it returns None unless output and Popen
\* are both set, and then it raises the invalid-invocation error.
SkipNoProcess ==
    call.skip =>
        /\ spawned = <<>>
        /\ prompts = 0
        /\ Finished =>
            outcome = IF CaptureAndSpawn THEN InvalidInvocation ELSE NoOp

\* a skipped call that asked for confirmation and a shell string has returned
SkipNoProcessWitness ==
    /\ Finished
    /\ call.skip /\ call.confirm /\ call.shell /\ call.Popen
    /\ outcome = NoOp

\* C8: a call with output and Popen both set ends in the invalid-invocation
\* error, with no primitive invoked and no prompt shown, whatever the rest.
MutualExclusion ==
    CaptureAndSpawn =>
        /\ spawned = <<>>
        /\ prompts = 0
        /\ Finished => outcome = InvalidInvocation

\* such a call, with skip and confirm set and nothing to run, has ended
MutualExclusionWitness ==
    /\ Finished
    /\ CaptureAndSpawn
    /\ call.skip /\ call.confirm
    /\ Normalize(call.frags) = <<>>
    /\ outcome = InvalidInvocation

Overlay == OrEmpty(call.env)

\* C9: during and at the end of a call with a non-empty overlay, os.environ is
\* what it was when the call began; the mapping a primitive receives has the
\* keys of both, the overlay's value where it has the key and os.environ's
\* elsewhere.
EnvIsolation ==
    (spc # "idle" /\ Overlay # EmptyMap) =>
        /\ environ = envAtCall
        /\ \A i \in 1..Len(spawned) :
            LET e == spawned[i].env IN
            /\ DOMAIN e = (DOMAIN envAtCall) \cup (DOMAIN Overlay)
            /\ \A k \in DOMAIN Overlay : e[k] = Overlay[k]
            /\ \A k \in (DOMAIN envAtCall) \ (DOMAIN Overlay) : e[k] = envAtCall[k]

\* a call inside environment() whose overlay collides with os.environ on a key
\* has run a child
EnvIsolationWitness ==
    /\ Finished
    /\ saved # NoEnv
    /\ spawned # <<>>
    /\ \E k \in (DOMAIN Overlay) \cap (DOMAIN envAtCall) : Overlay[k] # envAtCall[k]
    /\ (DOMAIN envAtCall) \ (DOMAIN Overlay) # {}

\* C10: after a negative answer to the prompt the call has ended, returning
\* None, with no primitive invoked; and a call with confirm set has invoked a
\* primitive only after a positive answer.
ConfirmGate ==
    /\ answer = "no" => (Finished /\ outcome = NoOp /\ spawned = <<>>)
    /\ (call.confirm /\ spawned # <<>>) => answer = "yes"
    /\ (call.confirm /\ spc \in {"env", "dispatch"}) => answer = "yes"

\* the prompt of a call that would have spawned a process was answered no
ConfirmGateWitness ==
    /\ answer = "no"
    /\ Finished
    /\ call.Popen
    /\ Normalize(call.frags) # <<>>

\* the child the call ran to its end with a blocking primitive, if any
RanChild(prim) ==
    /\ Finished
    /\ Len(spawned) = 1
    /\ spawned[1].started
    /\ spawned[1].prim = prim

\* C11 (as claimed): a child that exits non-zero gives, in Run mode, a
\* completed-process result with that exit code and, in Capture mode, a process
\* error with the exit code and the captured output; a child that exits zero
\* gives, in Capture mode, a text result.
ExitCodeOutcome ==
    /\ (RanChild("run") /\ spawned[1].code # 0) =>
            outcome = Returned("completed", spawned[1].code, FALSE)
    /\ (RanChild("check_output") /\ spawned[1].code # 0) =>
            outcome = RaisedProcessError(spawned[1].code, spawned[1].stdout)
    /\ (RanChild("check_output") /\ spawned[1].code = 0) =>
            outcome.kind = "text"

\* "hi\n" as the code points of the characters h, i and newline
TextHi == <<104, 105, 10>>

\* C11 (amended): as claimed, the zero-exit Capture result being the UTF-8
\* decoding of the child's stdout where the bytes are valid UTF-8, and
\* UnicodeDecodeError being raised where they are not.
ExitCodeOutcomeUtf8 ==
    /\ (RanChild("run") /\ spawned[1].code # 0) =>
            outcome = Returned("completed", spawned[1].code, FALSE)
    /\ (RanChild("check_output") /\ spawned[1].code # 0) =>
            outcome = RaisedProcessError(spawned[1].code, spawned[1].stdout)
    /\ (RanChild("check_output") /\ spawned[1].code = 0) =>
            LET d == Utf8Decode(spawned[1].stdout) IN
            IF d.ok THEN outcome.kind = "text" /\ outcome.data = d.text
                    ELSE outcome = Raised("UnicodeDecodeError", 0)
    /\ (RanChild("check_output") /\ spawned[1].code = 0
            /\ spawned[1].stdout = <<104, 105, 10>>) =>
            outcome = ReturnedText(TextHi)
    /\ (RanChild("check_output") /\ spawned[1].code = 0
            /\ spawned[1].stdout = <<195, 169>>) =>
            outcome = ReturnedText(<<233>>)

\* Run mode has returned the result of `false`, which exited with code 1
ExitCodeOutcomeWitness ==
    /\ RanChild("run")
    /\ spawned[1].args = <<"false">>
    /\ spawned[1].code = 1
    /\ outcome.kind = "completed"

----------------------------------------------------------------------------
(* Properties of the closed StdinWrapper and of several producers, under Spec *)

WorkerTerminated == wpc \in {"exit", "crashed"}

\* the worker thread can take a step of its own
WorkerCanStep ==
    ENABLED (WorkerLoop \/ WorkerGet \/ WorkerWrite \/ WorkerTaskDone)

\* C12 (as claimed): once close() has returned, the raw stdin is closed, the
\* process has been seen exited, and the worker has terminated or is on its
\* way to: it is not parked where only a further write() could move it.
ClosedIsTerminal ==
    closeReturns > 0 =>
        /\ stdinClosed
        /\ procExited
        /\ WorkerTerminated \/ WorkerCanStep

\* C13 (as claimed): a second close() on a closed wrapper does not deadlock.
\* It would if it waited in join() for chunks that nothing will acknowledge
\* any more, the worker having terminated.
SecondCloseReturns ==
    ~ (/\ closeReturns >= 1
       /\ closeCalls >= 2
       /\ cpc = "join"
       /\ procExited
       /\ unfinished > 0
       /\ WorkerTerminated)

\* from position i on, the chunks of producer p in sequence q are that
\* producer's k-th, (k+1)-th, ... write(), in this order
RECURSIVE InCallOrder(_, _, _, _)
InCallOrder(q, p, i, k) ==
    IF i > Len(q) THEN TRUE
    ELSE IF q[i][1] = p THEN q[i] = Chunk(p, k) /\ InCallOrder(q, p, i + 1, k + 1)
    ELSE InCallOrder(q, p, i + 1, k)

\* C14: with several producers, the chunks of each producer reach the raw
\* stdin in that producer's call order, starting with its first, none twice
\* and none left out between two written ones; only what the one worker took
\* reaches it; and once the raw stdin is closed, every chunk whose write() had
\* returned when close() was invoked has reached it.
ProducersSerialized ==
    /\ \A p \in Producers : InCallOrder(pipe, p, 1, 1)
    /\ Len(pipe) <= taken
    /\ stdinClosed =>
        /\ enqAtClose <= Len(pipe)
        /\ \A i \in 1..enqAtClose : pipe[i] = sent[i]

\* the chunk of the second producer reached the raw stdin between two chunks
\* of the first, all enqueued before close(), which has closed the raw stdin
ProducersSerializedWitness ==
    /\ stdinClosed
    /\ enqAtClose >= 3
    /\ \E i \in 2..(Len(pipe) - 1) :
        /\ i < enqAtClose
        /\ pipe[i] = Chunk(2, 1)
        /\ pipe[i - 1][1] = 1
        /\ pipe[i + 1][1] = 1

====
